---- MODULE Spec2Model ----
(***************************************************************************)
(* Model of app.py: per-module sampling workers, fire-and-forget           *)
(* checkpoint save threads, recovery, and the request handlers that        *)
(* trigger failure, recovery, reset and log download.                      *)
(*                                                                         *)
(* Every `with state_lock:` block that does not block inside is one        *)
(* atomic step guarded by the lock being free.  recover_module calls       *)
(* add_log inside its state_lock block, so there the lock is held across   *)
(* steps.  add_log is two steps: acquiring log_lock, then the append and   *)
(* the release.  Log entries carry level and message; their timestamp      *)
(* text is not modelled.  Log appends are assumed not to raise.            *)
(***************************************************************************)
EXTENDS Integers, Sequences, FiniteSets, TLC

\* ------------------------------------------------------------------ bounds
MaxSeq == 2
MaxInFlight == 2
MaxTicks == 4
MaxReq == 2
MaxSpont == 1
MaxResets == 1
StartEpoch == 100
HistSeq == 301
HistReq == 1
HealSeq == 1
HealReq == 1
StoreInFlight == 1
StoreSeq == 1
StartSeq == 5
StartTicks == 5
IdemReq == 2
LockReq == 1

\* --------------------------------------------------------------- constants
HistoryMax == 300

ModSeq == <<"Heart Rate", "Temperature", "Oxygen">>
Modules == {ModSeq[i] : i \in 1..Len(ModSeq)}
Interval == [m \in Modules |->
    CASE m = "Heart Rate" -> 5 [] m = "Temperature" -> 8 [] OTHER -> 10]
Unit == [m \in Modules |->
    CASE m = "Heart Rate" -> "bpm" [] m = "Temperature" -> "C" [] OTHER -> "%"]
\* generate_value_for: the range of each generator (temperature in tenths)
GenRange == [m \in Modules |->
    CASE m = "Heart Rate" -> 60..100 [] m = "Temperature" -> 360..375
      [] OTHER -> 92..100]

None == <<>>
Some(x) == <<x>>

\* ---------------------------------------------------------------- threads
\* a thread is <<kind, module or route, slot>>; t[2] is the module of a
\* worker or save thread
W(m) == <<"worker", m, 0>>
S(m, i) == <<"save", m, i>>
R(k) == <<"request", k, 0>>
Free == <<"-", "-", 0>>
ReqKinds == {"fail", "recover", "reset", "logs", "dashboard", "api"}
Workers == {W(m) : m \in Modules}
Tasks == {S(m, i) : m \in Modules, i \in 1..MaxInFlight}
Reqs == {R(k) : k \in ReqKinds}
Threads == Workers \cup Tasks \cup Reqs

\* ------------------------------------------------------------- file system
Absent == <<"absent">>
Empty == <<"empty">>
Partial(p) == <<"partial", p>>
Full(p) == <<"full", p>>
Corrupt == <<"corrupt">>
FinalPath(m) == <<"ckpt", m, 0>>
TmpPath(t) == <<"tmp", t[2], t[3]>>
Paths == {FinalPath(m) : m \in Modules} \cup {TmpPath(t) : t \in Tasks}

VARIABLES
    state,       \* state[m]: the runtime record of module m
    fs,          \* content of every checkpoint and temporary path
    log,         \* events.log: whether it exists, and its lines
    state_lock,  \* holder of state_lock, or Free
    log_lock,    \* holder of log_lock, or Free
    now,         \* time.time(), in whole seconds
    pc,          \* position of every thread
    arg,         \* module_name argument of a request handler
    val,         \* new_val of a worker, value argument of a save thread
    data,        \* data loaded by recover_module, payload of a save thread
    nreq,        \* requests served so far
    nspont       \* spontaneous failures injected so far

vars == <<state, fs, log, state_lock, log_lock, now, pc, arg, val, data,
          nreq, nspont>>

DefaultState == [value |-> None, status |-> "Active", last_cp |-> None,
                 history |-> <<>>, failed |-> FALSE,
                 last_checkpoint_time_epoch |-> 0, seq |-> 0,
                 last_value_time |-> None]

now_local_iso == [iso |-> now]

\* the process right after the worker threads are started (line 399) and
\* the start-up entry is logged (line 402), on a given checkpoint directory
InitOn(disk) ==
    /\ state = [m \in Modules |-> DefaultState]
    /\ fs = disk
    /\ log = [exists |-> TRUE,
              lines |-> <<[level |-> "INFO", msg |-> <<"System", "starting">>]>>]
    /\ state_lock = Free
    /\ log_lock = Free
    /\ now = StartEpoch
    /\ pc = [t \in Threads |-> IF t \in Workers THEN "init" ELSE "idle"]
    /\ arg = [t \in Threads |-> IF t \in Reqs THEN "-" ELSE t[2]]
    /\ val = [t \in Threads |-> None]
    /\ data = [t \in Threads |-> None]
    /\ nreq = 0
    /\ nspont = 0

EmptyDisk == [p \in Paths |-> Absent]

\* a fresh checkpoint directory
Init == InitOn(EmptyDisk)

\* a record an earlier run of the program saved for module m
OldRecord(m) ==
    [value |-> CHOOSE v \in GenRange[m] : \A w \in GenRange[m] : w <= v,
     module |-> m,
     unit |-> Unit[m],
     time |-> [iso |-> StartEpoch - 10],
     epoch |-> StartEpoch - 10]

\* the checkpoint directory survives the process (line 19, exist_ok): the
\* file of a module may be missing, left by an earlier run, or unreadable
InitDisk ==
    \E c \in {Absent, Full(OldRecord("Heart Rate")), Corrupt} :
        InitOn([EmptyDisk EXCEPT![FinalPath("Heart Rate")] = c])

\* a checkpoint directory that is fresh or holds the record of an earlier run
InitStore ==
    \E c \in {Absent, Full(OldRecord("Heart Rate"))} :
        InitOn([EmptyDisk EXCEPT![FinalPath("Heart Rate")] = c])

Goto(t, where) == pc' = [pc EXCEPT![t] = where]

Tick ==
    /\ now' = now + 1
    /\ UNCHANGED <<state, fs, log, state_lock, log_lock, pc, arg, val, data,
                   nreq, nspont>>

\* ------------------------------------------------------------------ add_log
LogSites == {"log_load", "log_rec", "log_fail", "log_saved", "log_savefail",
             "log_reset"}

\* where a thread continues when the function it runs returns
RetPc(t) == IF t \in Workers THEN "read" ELSE "idle"

\* the entry add_log is called with at each call site
LogEntryAt(t) ==
    CASE pc[t] = "log_load" ->
           [level |-> "ERROR", msg |-> <<arg[t], "checkpoint load failed">>]
      [] pc[t] = "log_rec" ->
           IF data[t] # None
           THEN [level |-> "SUCCESS", msg |-> <<arg[t], "recovered from checkpoint">>]
           ELSE [level |-> "WARN", msg |-> <<arg[t], "no checkpoint available">>]
      [] pc[t] = "log_fail" ->
           IF t \in Workers
           THEN [level |-> "ERROR", msg |-> <<arg[t], "spontaneous failure">>]
           ELSE [level |-> "ERROR", msg |-> <<arg[t], "manual failure triggered">>]
      [] pc[t] = "log_saved" ->
           [level |-> "SUCCESS", msg |-> <<arg[t], "checkpoint saved">>]
      [] pc[t] = "log_savefail" ->
           [level |-> "ERROR", msg |-> <<arg[t], "checkpoint save failed">>]
      [] OTHER ->
           [level |-> "INFO", msg |-> <<"System", "reset">>]

\* the statement after each add_log call
AfterLog(t) ==
    CASE pc[t] = "log_load" -> "rec"
      [] pc[t] = "log_saved" -> "job"
      [] pc[t] = "log_savefail" -> "err"
      [] OTHER -> RetPc(t)

\* add_log, line 56: with log_lock
AddLogAcquire(t) ==
    /\ pc[t] \in LogSites
    /\ log_lock = Free
    /\ log_lock' = t
    /\ UNCHANGED <<state, fs, log, state_lock, now, pc, arg, val, data,
                   nreq, nspont>>

\* an add_log that takes state_lock for its write while it holds log_lock
AddLogWriteUnderStateLock(t) ==
    /\ pc[t] \in LogSites
    /\ log_lock = t
    /\ state_lock = Free
    /\ log' = [exists |-> TRUE, lines |-> Append(log.lines, LogEntryAt(t))]
    /\ log_lock' = Free
    /\ Goto(t, AfterLog(t))
    /\ arg' = [arg EXCEPT![t] = IF t \in Reqs /\ AfterLog(t) = "idle"
                                  THEN "-" ELSE @]
    /\ data' = [data EXCEPT![t] = IF pc[t] \in {"log_rec", "log_savefail"}
                                    THEN None ELSE @]
    /\ UNCHANGED <<state, fs, state_lock, now, val, nreq, nspont>>

\* add_log, lines 57-58: open(LOG_FILE, "a") creates the file when it is
\* missing, the line is appended, and log_lock is released.  The call in
\* recover_module is the last statement of its state_lock block, so
\* state_lock is released on return.
AddLogWrite(t) ==
    /\ pc[t] \in LogSites
    /\ log_lock = t
    /\ log' = [exists |-> TRUE, lines |-> Append(log.lines, LogEntryAt(t))]
    /\ log_lock' = Free
    /\ state_lock' = IF pc[t] = "log_rec" THEN Free ELSE state_lock
    /\ Goto(t, AfterLog(t))
    /\ arg' = [arg EXCEPT![t] = IF t \in Reqs /\ AfterLog(t) = "idle"
                                  THEN "-" ELSE @]
    /\ data' = [data EXCEPT![t] = IF pc[t] \in {"log_rec", "log_savefail"}
                                    THEN None ELSE @]
    /\ UNCHANGED <<state, fs, now, val, nreq, nspont>>

\* --------------------------------------------------- load / recover_module
\* load_checkpoint_file, line 130: os.path.exists(path)
LoadExists(t) ==
    /\ pc[t] = "exists"
    /\ IF fs[FinalPath(arg[t])] # Absent
       THEN Goto(t, "open") /\ UNCHANGED data
       ELSE Goto(t, "rec") /\ data' = [data EXCEPT![t] = None]
    /\ UNCHANGED <<state, fs, log, state_lock, log_lock, now, arg, val,
                   nreq, nspont>>

\* what pickle.load makes of a file's content: only a completely written
\* record loads; a missing, empty, truncated or foreign file raises
Unpickle(content) == IF content[1] = "full" THEN Some(content[2]) ELSE None

\* a load that returns None on an unreadable file without logging it
LoadOpenSilent(t) ==
    /\ pc[t] = "open"
    /\ data' = [data EXCEPT![t] = Unpickle(fs[FinalPath(arg[t])])]
    /\ Goto(t, "rec")
    /\ UNCHANGED <<state, fs, log, state_lock, log_lock, now, arg, val,
                   nreq, nspont>>

\* load_checkpoint_file, lines 131-137: open and pickle.load; any exception
\* is logged and None is returned
LoadOpen(t) ==
    /\ pc[t] = "open"
    /\ data' = [data EXCEPT![t] = Unpickle(fs[FinalPath(arg[t])])]
    /\ Goto(t, IF Unpickle(fs[FinalPath(arg[t])]) # None THEN "rec"
               ELSE "log_load")
    /\ UNCHANGED <<state, fs, log, state_lock, log_lock, now, arg, val,
                   nreq, nspont>>

\* a recovery that clears failed only when it found a checkpoint
RecoverApplyKeepsFailed(t) ==
    /\ pc[t] = "rec"
    /\ state_lock = Free
    /\ state_lock' = t
    /\ state' = [state EXCEPT![arg[t]] =
         IF data[t] # None
         THEN [@ EXCEPT !.value = Some(data[t][1].value),
                        !.status = "Recovered",
                        !.failed = FALSE,
                        !.last_cp = Some(data[t][1].time)]
         ELSE [@ EXCEPT !.status = "No Checkpoint"]]
    /\ Goto(t, "log_rec")
    /\ UNCHANGED <<fs, log, log_lock, now, arg, val, data, nreq, nspont>>

\* a recovery that forgets the value when it finds no checkpoint
RecoverApplyClearsValue(t) ==
    /\ pc[t] = "rec"
    /\ state_lock = Free
    /\ state_lock' = t
    /\ state' = [state EXCEPT![arg[t]] =
         IF data[t] # None
         THEN [@ EXCEPT !.value = Some(data[t][1].value),
                        !.status = "Recovered",
                        !.failed = FALSE,
                        !.last_cp = Some(data[t][1].time)]
         ELSE [@ EXCEPT !.value = None,
                        !.status = "No Checkpoint",
                        !.failed = FALSE]]
    /\ Goto(t, "log_rec")
    /\ UNCHANGED <<fs, log, log_lock, now, arg, val, data, nreq, nspont>>

\* a recovery that also takes the checkpoint epoch from the record
RecoverApplySetsEpoch(t) ==
    /\ pc[t] = "rec"
    /\ state_lock = Free
    /\ state_lock' = t
    /\ state' = [state EXCEPT![arg[t]] =
         IF data[t] # None
         THEN [@ EXCEPT !.value = Some(data[t][1].value),
                        !.status = "Recovered",
                        !.failed = FALSE,
                        !.last_cp = Some(data[t][1].time),
                        !.last_checkpoint_time_epoch = data[t][1].epoch]
         ELSE [@ EXCEPT !.status = "No Checkpoint", !.failed = FALSE]]
    /\ Goto(t, "log_rec")
    /\ UNCHANGED <<fs, log, log_lock, now, arg, val, data, nreq, nspont>>

\* a recovery that restores last_cp and leaves the value as it is
RecoverApplyKeepsValue(t) ==
    /\ pc[t] = "rec"
    /\ state_lock = Free
    /\ state_lock' = t
    /\ state' = [state EXCEPT![arg[t]] =
         IF data[t] # None
         THEN [@ EXCEPT !.status = "Recovered",
                        !.failed = FALSE,
                        !.last_cp = Some(data[t][1].time)]
         ELSE [@ EXCEPT !.status = "No Checkpoint", !.failed = FALSE]]
    /\ Goto(t, "log_rec")
    /\ UNCHANGED <<fs, log, log_lock, now, arg, val, data, nreq, nspont>>

\* recover_module, lines 141-151: the state update under state_lock, which
\* stays held for the add_log call that follows inside the block
RecoverApply(t) ==
    /\ pc[t] = "rec"
    /\ state_lock = Free
    /\ state_lock' = t
    /\ state' = [state EXCEPT![arg[t]] =
         IF data[t] # None
         THEN [@ EXCEPT !.value = Some(data[t][1].value),
                        !.status = "Recovered",
                        !.failed = FALSE,
                        !.last_cp = Some(data[t][1].time)]
         ELSE [@ EXCEPT !.status = "No Checkpoint", !.failed = FALSE]]
    /\ Goto(t, "log_rec")
    /\ UNCHANGED <<fs, log, log_lock, now, arg, val, data, nreq, nspont>>

\* ------------------------------------------------------------- module_loop
\* a worker whose first checkpoint interval starts when the thread starts
W_InitFromNow(m) ==
    /\ pc[W(m)] = "init"
    /\ state_lock = Free
    /\ state' = [state EXCEPT![m].last_checkpoint_time_epoch = now]
    /\ Goto(W(m), "read")
    /\ UNCHANGED <<fs, log, state_lock, log_lock, now, arg, val, data,
                   nreq, nspont>>

\* module_loop, lines 169-171
W_Init(m) ==
    /\ pc[W(m)] = "init"
    /\ state_lock = Free
    /\ state' = [state EXCEPT![m].last_checkpoint_time_epoch =
                    now - (Interval[m] \div 2)]
    /\ Goto(W(m), "read")
    /\ UNCHANGED <<fs, log, state_lock, log_lock, now, arg, val, data,
                   nreq, nspont>>

\* a worker that joined the save threads it started
AsyncSaveJoins(m) == \A i \in 1..MaxInFlight : pc[S(m, i)] = "idle"

\* async_save_checkpoint, line 126: the thread is started and never joined,
\* so the call returns to the worker whatever its save threads are doing
AsyncSaveReturns(m) == TRUE

\* module_loop, lines 174-177: failed is read under the lock and tested
\* after the lock is released.  The loop gets here from the time.sleep(1)
\* that ends an iteration.
W_Read(m) ==
    /\ pc[W(m)] = "read"
    /\ state_lock = Free
    /\ Goto(W(m), IF state[m].failed THEN "setrec" ELSE "sample")
    /\ UNCHANGED <<state, fs, log, state_lock, log_lock, now, arg, val, data,
                   nreq, nspont>>

\* module_loop, lines 178-179; recover_module is entered next
W_SetRecovering(m) ==
    /\ pc[W(m)] = "setrec"
    /\ state_lock = Free
    /\ state' = [state EXCEPT![m].status = "Recovering..."]
    /\ Goto(W(m), "exists")
    /\ UNCHANGED <<fs, log, state_lock, log_lock, now, arg, val, data,
                   nreq, nspont>>

\* a cut that tests the length against the limit off by one
AppendHistoryLate(h, v) ==
    IF Len(Append(h, v)) > HistoryMax + 1
    THEN SubSeq(Append(h, v), Len(Append(h, v)) - HistoryMax + 1,
                Len(Append(h, v)))
    ELSE Append(h, v)

\* history after the append and the cut to the last 300, lines 189-191
AppendHistory(h, v) ==
    IF Len(Append(h, v)) > HistoryMax
    THEN SubSeq(Append(h, v), Len(Append(h, v)) - HistoryMax + 1,
                Len(Append(h, v)))
    ELSE Append(h, v)

\* module_loop, lines 184-191: v is the generated value
W_Sample(m, v) ==
    /\ pc[W(m)] = "sample"
    /\ v \in GenRange[m]
    /\ state_lock = Free
    /\ state' = [state EXCEPT![m] =
         [@ EXCEPT !.seq = @ + 1,
                   !.value = Some(v),
                   !.last_value_time = Some(now_local_iso),
                   !.history = AppendHistory(@, v)]]
    /\ val' = [val EXCEPT![W(m)] = Some(v)]
    /\ Goto(W(m), "cpread")
    /\ UNCHANGED <<fs, log, state_lock, log_lock, now, arg, data,
                   nreq, nspont>>

\* module_loop, line 197
CheckpointDue(m) ==
    now - state[m].last_checkpoint_time_epoch >= Interval[m]

\* module_loop, lines 193-197
W_ReadCp(m) ==
    /\ pc[W(m)] = "cpread"
    /\ state_lock = Free
    /\ Goto(W(m), IF CheckpointDue(m) THEN "ckpt" ELSE "maybefail")
    /\ val' = [val EXCEPT![W(m)] = IF CheckpointDue(m) THEN @ ELSE None]
    /\ UNCHANGED <<state, fs, log, state_lock, log_lock, now, arg, data,
                   nreq, nspont>>

FreeSlots(m) == {i \in 1..MaxInFlight : pc[S(m, i)] = "idle"}
LowestFree(m) == CHOOSE i \in FreeSlots(m) : \A j \in FreeSlots(m) : i <= j

\* module_loop, lines 198-200, and async_save_checkpoint, line 126: the
\* status is set under the lock and a save thread is started with new_val
W_Checkpoint(m) ==
    /\ pc[W(m)] = "ckpt"
    /\ state_lock = Free
    /\ FreeSlots(m) # {}
    /\ state' = [state EXCEPT![m].status = "Checkpointing..."]
    /\ pc' = [pc EXCEPT![W(m)] = "maybefail",
                        ![S(m, LowestFree(m))] = "payload"]
    /\ val' = [val EXCEPT![W(m)] = None,
                          ![S(m, LowestFree(m))] = val[W(m)]]
    /\ UNCHANGED <<fs, log, state_lock, log_lock, now, arg, data,
                   nreq, nspont>>

\* module_loop, lines 203 and 209: random.random() >= 0.01, then the sleep
W_NoFailure(m) ==
    /\ pc[W(m)] = "maybefail"
    /\ AsyncSaveReturns(m)
    /\ Goto(W(m), "read")
    /\ UNCHANGED <<state, fs, log, state_lock, log_lock, now, arg, val, data,
                   nreq, nspont>>

\* a spontaneous failure that sets the status and not the flag
W_SpontaneousFailureStatusOnly(m) ==
    /\ pc[W(m)] = "maybefail"
    /\ AsyncSaveReturns(m)
    /\ state_lock = Free
    /\ state' = [state EXCEPT![m].status = "Failed"]
    /\ Goto(W(m), "log_fail")
    /\ nspont' = nspont + 1
    /\ UNCHANGED <<fs, log, state_lock, log_lock, now, arg, val, data, nreq>>

\* module_loop, lines 203-206: random.random() < 0.01
W_SpontaneousFailure(m) ==
    /\ pc[W(m)] = "maybefail"
    /\ AsyncSaveReturns(m)
    /\ state_lock = Free
    /\ state' = [state EXCEPT![m] =
         [@ EXCEPT !.failed = TRUE, !.status = "Failed"]]
    /\ Goto(W(m), "log_fail")
    /\ nspont' = nspont + 1
    /\ UNCHANGED <<fs, log, state_lock, log_lock, now, arg, val, data, nreq>>

\* ------------------------------------------- save_checkpoint_file and _job
\* save_checkpoint_file, lines 103-109, and _atomic_write_pickle, lines
\* 85-87: the payload is built from the clock and the temporary file is
\* created empty
S_Begin(t) ==
    /\ pc[t] = "payload"
    /\ data' = [data EXCEPT![t] =
         Some([value |-> val[t][1], module |-> t[2], unit |-> Unit[t[2]],
               time |-> now_local_iso, epoch |-> now])]
    /\ fs' = [fs EXCEPT![TmpPath(t)] = Empty]
    /\ Goto(t, "write")
    /\ UNCHANGED <<state, log, state_lock, log_lock, now, arg, val,
                   nreq, nspont>>

\* a write that goes to the checkpoint path itself
WritePathInPlace(t) == FinalPath(t[2])

\* _atomic_write_pickle, line 89: the path pickle.dump writes to
WritePath(t) == TmpPath(t)

\* _atomic_write_pickle, lines 89-90: the file is opened for writing and
\* part of the record is on disk
S_WriteStart(t) ==
    /\ pc[t] = "write"
    /\ fs' = [fs EXCEPT![WritePath(t)] = Partial(data[t][1])]
    /\ Goto(t, "dump")
    /\ UNCHANGED <<state, log, state_lock, log_lock, now, arg, val, data,
                   nreq, nspont>>

\* _atomic_write_pickle, line 90: pickle.dump completes and the file is
\* closed
S_WriteEnd(t) ==
    /\ pc[t] = "dump"
    /\ fs' = [fs EXCEPT![WritePath(t)] = Full(data[t][1])]
    /\ Goto(t, "replace")
    /\ UNCHANGED <<state, log, state_lock, log_lock, now, arg, val, data,
                   nreq, nspont>>

\* _atomic_write_pickle, line 91: os.replace(tmp_path, path)
S_Replace(t) ==
    /\ pc[t] = "replace"
    /\ fs' = [fs EXCEPT![FinalPath(t[2])] = fs[TmpPath(t)],
                        ![TmpPath(t)] = Absent]
    /\ Goto(t, "upd")
    /\ UNCHANGED <<state, log, state_lock, log_lock, now, arg, val, data,
                   nreq, nspont>>

\* _atomic_write_pickle, lines 92-97, when pickle.dump or os.replace raises:
\* the finally block removes the temporary file, and save_checkpoint_file
\* catches the exception at line 115
S_WriteFails(t) ==
    /\ pc[t] \in {"dump", "replace"}
    /\ fs' = [fs EXCEPT![TmpPath(t)] = Absent]
    /\ Goto(t, "log_savefail")
    /\ UNCHANGED <<state, log, state_lock, log_lock, now, arg, val, data,
                   nreq, nspont>>

\* save_checkpoint_file, lines 111-113
S_Update(t) ==
    /\ pc[t] = "upd"
    /\ state_lock = Free
    /\ state' = [state EXCEPT![t[2]] =
         [@ EXCEPT !.last_cp = Some(data[t][1].time),
                   !.last_checkpoint_time_epoch = data[t][1].epoch]]
    /\ data' = [data EXCEPT![t] = None]
    /\ Goto(t, "log_saved")
    /\ UNCHANGED <<fs, log, state_lock, log_lock, now, arg, val, nreq, nspont>>

\* save_checkpoint_file, lines 117-118.  The position after it is kept
\* apart from the one after a successful save ("job_err" and "job"), both
\* being line 123.
S_Error(t) ==
    /\ pc[t] = "err"
    /\ state_lock = Free
    /\ state' = [state EXCEPT![t[2]].status = "Checkpoint Error"]
    /\ Goto(t, "job_err")
    /\ UNCHANGED <<fs, log, state_lock, log_lock, now, arg, val, data,
                   nreq, nspont>>

\* a save thread that ends without the status update of _job
S_JobLeavesStatus(t) ==
    /\ pc[t] \in {"job", "job_err"}
    /\ state_lock = Free
    /\ Goto(t, "idle")
    /\ val' = [val EXCEPT![t] = None]
    /\ UNCHANGED <<state, fs, log, state_lock, log_lock, now, arg, data,
                   nreq, nspont>>

\* _job, lines 123-125, after which the thread ends
S_Job(t) ==
    /\ pc[t] \in {"job", "job_err"}
    /\ state_lock = Free
    /\ state' = [state EXCEPT![t[2]].status =
                    IF ~state[t[2]].failed THEN "Active" ELSE @]
    /\ Goto(t, "idle")
    /\ val' = [val EXCEPT![t] = None]
    /\ UNCHANGED <<fs, log, state_lock, log_lock, now, arg, data,
                   nreq, nspont>>

\* ---------------------------------------------------------------- routes
\* a failure trigger that also restarts the sample count
Fail_SetClearsSeq(m) ==
    /\ pc[R("fail")] = "idle"
    /\ state_lock = Free
    /\ state' = [state EXCEPT![m] =
         [@ EXCEPT !.failed = TRUE, !.status = "Failed", !.seq = 0]]
    /\ arg' = [arg EXCEPT![R("fail")] = m]
    /\ Goto(R("fail"), "log_fail")
    /\ nreq' = nreq + 1
    /\ UNCHANGED <<fs, log, state_lock, log_lock, now, val, data, nspont>>

\* fail_module, lines 326-329
Fail_Set(m) ==
    /\ pc[R("fail")] = "idle"
    /\ state_lock = Free
    /\ state' = [state EXCEPT![m] =
         [@ EXCEPT !.failed = TRUE, !.status = "Failed"]]
    /\ arg' = [arg EXCEPT![R("fail")] = m]
    /\ Goto(R("fail"), "log_fail")
    /\ nreq' = nreq + 1
    /\ UNCHANGED <<fs, log, state_lock, log_lock, now, val, data, nspont>>

\* recover_route, lines 335-338; recover_module is entered next
Recover_Set(m) ==
    /\ pc[R("recover")] = "idle"
    /\ state_lock = Free
    /\ state' = [state EXCEPT![m] =
         [@ EXCEPT !.failed = FALSE, !.status = "Recovering..."]]
    /\ arg' = [arg EXCEPT![R("recover")] = m]
    /\ Goto(R("recover"), "exists")
    /\ nreq' = nreq + 1
    /\ UNCHANGED <<fs, log, state_lock, log_lock, now, val, data, nspont>>

\* reset_all, lines 345-350, for the first module of MODULES
Reset_Begin ==
    /\ pc[R("reset")] = "idle"
    /\ fs' = [fs EXCEPT![FinalPath(ModSeq[1])] = Absent]
    /\ Goto(R("reset"), "rm2")
    /\ nreq' = nreq + 1
    /\ UNCHANGED <<state, log, state_lock, log_lock, now, arg, val, data,
                   nspont>>

\* reset_all, lines 345-350, for the second and third module
Reset_Remove(i) ==
    /\ pc[R("reset")] = (IF i = 2 THEN "rm2" ELSE "rm3")
    /\ fs' = [fs EXCEPT![FinalPath(ModSeq[i])] = Absent]
    /\ Goto(R("reset"), IF i = 2 THEN "rm3" ELSE "rmlog")
    /\ UNCHANGED <<state, log, state_lock, log_lock, now, arg, val, data,
                   nreq, nspont>>

\* reset_all, lines 351-355: the log file is removed, log_lock not taken
Reset_RemoveLog ==
    /\ pc[R("reset")] = "rmlog"
    /\ log' = [exists |-> FALSE, lines |-> <<>>]
    /\ Goto(R("reset"), "reset_state")
    /\ UNCHANGED <<state, fs, state_lock, log_lock, now, arg, val, data,
                   nreq, nspont>>

\* reset_all, lines 357-362
Reset_State ==
    /\ pc[R("reset")] = "reset_state"
    /\ state_lock = Free
    /\ state' = [m \in Modules |-> DefaultState]
    /\ Goto(R("reset"), "log_reset")
    /\ UNCHANGED <<fs, log, state_lock, log_lock, now, arg, val, data,
                   nreq, nspont>>

\* download_logs, line 390, when the file exists: it is sent as it is
Logs_Send ==
    /\ pc[R("logs")] = "idle"
    /\ log.exists
    /\ nreq' = nreq + 1
    /\ UNCHANGED <<state, fs, log, state_lock, log_lock, now, pc, arg, val,
                   data, nspont>>

\* download_logs, line 390, when os.path.exists(LOG_FILE) is false
Logs_Missing ==
    /\ pc[R("logs")] = "idle"
    /\ ~log.exists
    /\ Goto(R("logs"), "create")
    /\ nreq' = nreq + 1
    /\ UNCHANGED <<state, fs, log, state_lock, log_lock, now, arg, val,
                   data, nspont>>

\* download_logs, lines 391-393: open(LOG_FILE, "w") leaves the file empty
\* whatever it held, log_lock not taken; the file is then sent
Logs_Create ==
    /\ pc[R("logs")] = "create"
    /\ log' = [exists |-> TRUE, lines |-> <<>>]
    /\ Goto(R("logs"), "idle")
    /\ UNCHANGED <<state, fs, state_lock, log_lock, now, arg, val, data,
                   nreq, nspont>>

\* api_state, lines 371-384: the snapshot is taken under state_lock
Api_Snapshot ==
    /\ pc[R("api")] = "idle"
    /\ state_lock = Free
    /\ nreq' = nreq + 1
    /\ UNCHANGED <<state, fs, log, state_lock, log_lock, now, pc, arg, val,
                   data, nspont>>

\* dashboard, lines 217-222: the cards are built under state_lock
Dash_Begin ==
    /\ pc[R("dashboard")] = "idle"
    /\ state_lock = Free
    /\ Goto(R("dashboard"), "dash_exists")
    /\ nreq' = nreq + 1
    /\ UNCHANGED <<state, fs, log, state_lock, log_lock, now, arg, val, data,
                   nspont>>

\* read_recent_logs, lines 62-63: no file, no entries
Dash_Exists ==
    /\ pc[R("dashboard")] = "dash_exists"
    /\ Goto(R("dashboard"), IF log.exists THEN "dash_lock" ELSE "idle")
    /\ UNCHANGED <<state, fs, log, state_lock, log_lock, now, arg, val, data,
                   nreq, nspont>>

\* read_recent_logs, line 65: with log_lock
Dash_Acquire ==
    /\ pc[R("dashboard")] = "dash_lock"
    /\ log_lock = Free
    /\ log_lock' = R("dashboard")
    /\ Goto(R("dashboard"), "dash_read")
    /\ UNCHANGED <<state, fs, log, state_lock, now, arg, val, data,
                   nreq, nspont>>

\* read_recent_logs, lines 66-78: the file is read, or open raises because
\* the file is gone; either way the with block releases log_lock
Dash_Read ==
    /\ pc[R("dashboard")] = "dash_read"
    /\ log_lock = R("dashboard")
    /\ log_lock' = Free
    /\ Goto(R("dashboard"), "idle")
    /\ UNCHANGED <<state, fs, log, state_lock, now, arg, val, data,
                   nreq, nspont>>

Dashboard ==
    \/ Dash_Exists
    \/ Dash_Acquire
    \/ Dash_Read

\* ---------------------------------------------------------- specifications
\* a worker starts an iteration while the model has room for it
CanIterate(m, cap) ==
    state[m].failed \/ (state[m].seq < cap /\ FreeSlots(m) # {})

Sampling(m, cap, vals) ==
    \/ W_Init(m)
    \/ CanIterate(m, cap) /\ W_Read(m)
    \/ \E v \in vals : W_Sample(m, v)
    \/ W_ReadCp(m)
    \/ W_NoFailure(m)

SelfHealing(m) ==
    \/ W_SetRecovering(m)
    \/ nspont < MaxSpont /\ W_SpontaneousFailure(m)

SaveThread(t) ==
    \/ S_Begin(t)
    \/ S_WriteStart(t)
    \/ S_WriteEnd(t)
    \/ S_Replace(t)
    \/ S_WriteFails(t)
    \/ S_Update(t)
    \/ S_Error(t)
    \/ S_Job(t)

Recovery(t) ==
    \/ LoadExists(t)
    \/ LoadOpen(t)
    \/ RecoverApply(t)

AddLog(t) ==
    \/ AddLogAcquire(t)
    \/ AddLogWrite(t)

\* one worker and its save threads, time passing
NextSave ==
    \/ now < StartEpoch + MaxTicks /\ Tick
    \/ Sampling("Heart Rate", MaxSeq, {60})
    \/ W_Checkpoint("Heart Rate")
    \/ \E t \in Tasks : SaveThread(t) \/ AddLog(t)

SpecSave == Init /\ [][NextSave]_vars

\* the save threads of m that are running
InFlight(m) == {i \in 1..MaxInFlight : pc[S(m, i)] # "idle"}

\* one worker with its failures and recoveries, and its save threads, of
\* which StoreInFlight run at a time
NextStore ==
    \/ now < StartEpoch + MaxTicks /\ Tick
    \/ W_Init("Heart Rate")
    \/ /\ \/ state["Heart Rate"].failed
          \/ Cardinality(InFlight("Heart Rate")) < StoreInFlight
       /\ CanIterate("Heart Rate", StoreSeq)
       /\ W_Read("Heart Rate")
    \/ W_Sample("Heart Rate", 60)
    \/ W_ReadCp("Heart Rate")
    \/ W_Checkpoint("Heart Rate")
    \/ W_NoFailure("Heart Rate")
    \/ \E t \in Tasks : SaveThread(t) \/ AddLog(t)
    \/ SelfHealing("Heart Rate")
    \/ Recovery(W("Heart Rate"))
    \/ AddLog(W("Heart Rate"))

SpecStore == InitStore /\ [][NextStore]_vars

\* one worker without checkpoints, failures and recoveries triggered by
\* requests, on a checkpoint directory an earlier run may have left
NextHeal ==
    \/ Sampling("Heart Rate", HealSeq, {60})
    \/ SelfHealing("Heart Rate")
    \/ \E t \in {W("Heart Rate"), R("recover"), R("fail")} :
          Recovery(t) \/ AddLog(t)
    \/ nreq < HealReq /\ Fail_Set("Heart Rate")
    \/ nreq < HealReq /\ Recover_Set("Heart Rate")

SpecHeal == InitDisk /\ [][NextHeal]_vars

ResetAll ==
    \/ nreq < MaxReq /\ Reset_Begin
    \/ \E i \in 2..3 : Reset_Remove(i)
    \/ Reset_RemoveLog
    \/ Reset_State
    \/ AddLog(R("reset"))

\* one worker and its save threads, time passing, and reset requests
NextReset ==
    \/ NextSave
    \/ nreq < MaxResets /\ Reset_Begin
    \/ \E i \in 2..3 : Reset_Remove(i)
    \/ Reset_RemoveLog
    \/ Reset_State
    \/ AddLog(R("reset"))

SpecReset == Init /\ [][NextReset]_vars

\* one worker that may fail and recover and has not come to start a
\* checkpoint, and the reset and log download requests
NextLog ==
    \/ Sampling("Heart Rate", MaxSeq, {60})
    \/ SelfHealing("Heart Rate")
    \/ Recovery(W("Heart Rate"))
    \/ AddLog(W("Heart Rate"))
    \/ ResetAll
    \/ nreq < MaxReq /\ Logs_Send
    \/ nreq < MaxReq /\ Logs_Missing
    \/ Logs_Create

SpecLog == InitStore /\ [][NextLog]_vars

\* the steps of a request handler once the request has been taken up
Handler(t) == Recovery(t) \/ AddLog(t)

\* the steps of the worker in NextHeal
HealWorker(m) ==
    \/ Sampling(m, HealSeq, {60})
    \/ SelfHealing(m)
    \/ Handler(W(m))

\* CPython hands the interpreter to every runnable thread again and again,
\* and a lock that is released is taken by a thread waiting for it
FairHeal ==
    /\ SpecHeal
    /\ WF_vars(HealWorker("Heart Rate"))
    /\ WF_vars(Handler(R("recover")))
    /\ WF_vars(Handler(R("fail")))

AsyncModules == {"Heart Rate", "Oxygen"}

\* seconds from a worker's start to its first checkpoint being due
DueAfter(m) == Interval[m] - Interval[m] \div 2

\* two workers, and the save threads of the first up to the end of their
\* file write, however long it takes; the clock advances while both
\* workers are started and have not sampled, until the first checkpoint is
\* due
NextAsync ==
    \/ /\ now < StartEpoch + DueAfter("Heart Rate")
       /\ \A m \in AsyncModules : pc[W(m)] = "read" /\ state[m].seq = 0
       /\ Tick
    \/ \E m \in AsyncModules : Sampling(m, MaxSeq, {60, 92} \cap GenRange[m])
    \/ W_Checkpoint("Heart Rate")
    \/ \E t \in Tasks :
          S_Begin(t) \/ S_WriteStart(t) \/ S_WriteEnd(t) \/ S_Replace(t)

SpecAsync == Init /\ [][NextAsync]_vars

\* the workers are scheduled fairly; nothing is assumed of the save threads
FairAsync ==
    /\ SpecAsync
    /\ \A m \in AsyncModules :
          WF_vars(Sampling(m, MaxSeq, {60, 92} \cap GenRange[m])
                    \/ W_Checkpoint("Heart Rate"))

\* no save thread of m is running
SavesDone(m) == \A i \in 1..MaxInFlight : pc[S(m, i)] = "idle"

\* one worker sampling past the history limit and its save threads, which
\* end within the worker's sleep, and the failure, recovery and reset
\* requests
NextHist ==
    \/ W_Init("Heart Rate")
    \/ /\ state["Heart Rate"].failed \/ state["Heart Rate"].seq < HistSeq
       /\ SavesDone("Heart Rate")
       /\ W_Read("Heart Rate")
    \/ W_Sample("Heart Rate", 60)
    \/ W_ReadCp("Heart Rate")
    \/ W_NoFailure("Heart Rate")
    \/ W_SetRecovering("Heart Rate")
    \/ W_Checkpoint("Heart Rate")
    \/ \E t \in Tasks :
          \/ S_Begin(t) \/ S_WriteStart(t) \/ S_WriteEnd(t) \/ S_Replace(t)
          \/ S_Update(t) \/ S_Job(t)
    \/ \E t \in Threads : Recovery(t) \/ AddLog(t)
    \/ nreq < HistReq /\ Fail_Set("Heart Rate")
    \/ nreq < HistReq /\ Recover_Set("Heart Rate")
    \/ nreq < HistReq /\ Reset_Begin
    \/ \E i \in 2..3 : Reset_Remove(i)
    \/ Reset_RemoveLog
    \/ Reset_State

SpecHist == InitStore /\ [][NextHist]_vars

\* module_loop, line 209: every iteration ends with time.sleep(1), so the
\* iteration after seq samples starts no earlier than seq seconds after the
\* first
Slept(m) == now >= StartEpoch + state[m].seq

\* one worker from its start, with no failure of the module, and its save
\* threads, of which StoreInFlight run at a time; the clock starts with the worker and runs at least as fast as
\* the worker's sleeps
NextStart ==
    \/ /\ now < StartEpoch + StartTicks
       /\ pc[W("Heart Rate")] # "init"
       /\ Tick
    \/ W_Init("Heart Rate")
    \/ /\ CanIterate("Heart Rate", StartSeq)
       /\ Cardinality(InFlight("Heart Rate")) < StoreInFlight
       /\ Slept("Heart Rate")
       /\ W_Read("Heart Rate")
    \/ W_Sample("Heart Rate", 60)
    \/ W_ReadCp("Heart Rate")
    \/ W_Checkpoint("Heart Rate")
    \/ W_NoFailure("Heart Rate")
    \/ \E t \in Tasks : SaveThread(t) \/ AddLog(t)

SpecStart == Init /\ [][NextStart]_vars

\* one worker sampling and recovery requests served one after the other,
\* on a fresh checkpoint directory
NextIdem ==
    \/ Sampling("Heart Rate", MaxSeq, {60, 100})
    \/ nreq < IdemReq /\ Recover_Set("Heart Rate")
    \/ LoadExists(R("recover"))
    \/ RecoverApply(R("recover"))
    \/ AddLog(R("recover"))

SpecIdem == Init /\ [][NextIdem]_vars

\* every kind of thread: one worker, whose checkpoints start when its last
\* save thread has finished, and LockReq disturbances, each of them a
\* spontaneous failure or a request of any route
Disturbed == nreq + nspont >= LockReq

NextLocks ==
    \/ Sampling("Heart Rate", HealSeq, {60})
    \/ W_SetRecovering("Heart Rate")
    \/ ~Disturbed /\ W_SpontaneousFailure("Heart Rate")
    \/ InFlight("Heart Rate") = {} /\ W_Checkpoint("Heart Rate")
    \/ \E t \in Tasks : SaveThread(t)
    \/ \E t \in Threads : Recovery(t) \/ AddLog(t)
    \/ ~Disturbed /\ Fail_Set("Heart Rate")
    \/ ~Disturbed /\ Recover_Set("Heart Rate")
    \/ ~Disturbed /\ Reset_Begin
    \/ \E i \in 2..3 : Reset_Remove(i)
    \/ Reset_RemoveLog
    \/ Reset_State
    \/ ~Disturbed /\ Api_Snapshot
    \/ ~Disturbed /\ Dash_Begin
    \/ Dashboard

SpecLocks == InitStore /\ [][NextLocks]_vars

\* the steps of the worker in NextLive
LiveWorker(m) ==
    \/ Sampling(m, HealSeq, {60})
    \/ W_SetRecovering(m)
    \/ InFlight(m) = {} /\ W_Checkpoint(m)
    \/ Handler(W(m))

\* one worker whose first checkpoint comes due, its save thread, and
\* LockReq disturbances, each a spontaneous failure or a failure request
NextLive ==
    \/ /\ now < StartEpoch + DueAfter("Heart Rate")
       /\ pc[W("Heart Rate")] = "read" /\ state["Heart Rate"].seq = 0
       /\ Tick
    \/ LiveWorker("Heart Rate")
    \/ ~Disturbed /\ W_SpontaneousFailure("Heart Rate")
    \/ ~Disturbed /\ Fail_Set("Heart Rate")
    \/ Handler(R("fail"))
    \/ \E t \in Tasks : SaveThread(t) \/ AddLog(t)

SpecLive == InitStore /\ [][NextLive]_vars

\* the worker and the save threads are scheduled fairly, and so is the
\* request thread that holds log_lock
FairLive ==
    /\ SpecLive
    /\ WF_vars(LiveWorker("Heart Rate"))
    /\ WF_vars(Handler(R("fail")))
    /\ \A t \in Tasks : WF_vars(SaveThread(t) \/ AddLog(t))

\* ------------------------------------------------------------------ claims
IsPrefix(s, t) == Len(s) <= Len(t) /\ SubSeq(t, 1, Len(s)) = s

HasEntry(level, m) ==
    \E i \in 1..Len(log.lines) :
        log.lines[i].level = level /\ log.lines[i].msg[1] = m

Min(a, b) == IF a <= b THEN a ELSE b

\* the record in the checkpoint file of m, if it holds a complete one
Stored(m) == Unpickle(fs[FinalPath(m)])

\* C1: whenever a checkpoint save of a module completes successfully (its
\* update of last_cp and last_checkpoint_time_epoch under state_lock), the
\* module's last_checkpoint_time_epoch after the update is at least its
\* value before, whatever the order in which the module's save threads
\* finish.
C1_EpochMonotonic ==
    [][\A t \in Tasks :
         S_Update(t) =>
           state'[t[2]].last_checkpoint_time_epoch
             >= state[t[2]].last_checkpoint_time_epoch]_vars

\* C2: no sampling step (seq incremented, value set, history appended) is
\* taken for a module whose failed flag is true at that moment.
C2_NoSamplingWhileFailed ==
    [][\A m \in Modules :
         (\E v \in GenRange[m] : W_Sample(m, v)) => ~state[m].failed]_vars

\* C3: when reset_all has reinitialised the state, every module's state is
\* the start-up default and no checkpoint file exists, whatever the save
\* threads in flight have done meanwhile.
C3_ResetLeavesDefaults ==
    [][Reset_State =>
         /\ \A m \in Modules : state'[m] = DefaultState
         /\ \A m \in Modules : fs'[FinalPath(m)] = Absent]_vars

\* C4: a failed module is always eventually not failed; a worker that reads
\* failed = true sets the status to "Recovering..." and starts a recovery,
\* and when that recovery returns the status is "Recovered" or
\* "No Checkpoint" and failed is false.
C4_SelfHealing ==
    /\ \A m \in Modules : state[m].failed ~> ~state[m].failed
    /\ [][\A m \in Modules :
            /\ (W_Read(m) /\ state[m].failed) => pc'[W(m)] = "setrec"
            /\ W_SetRecovering(m) =>
                  /\ state'[m].status = "Recovering..."
                  /\ pc'[W(m)] = "exists"
            /\ (pc[W(m)] = "log_rec" /\ AddLogWrite(W(m))) =>
                  /\ state'[m].status \in {"Recovered", "No Checkpoint"}
                  /\ ~state'[m].failed]_vars

\* the worker has recovered its module from a failure no request cleared
C4_Witness ==
    /\ nspont > 0
    /\ nreq = 0
    /\ pc[W("Heart Rate")] = "read"
    /\ state["Heart Rate"].status \in {"Recovered", "No Checkpoint"}
    /\ ~state["Heart Rate"].failed

\* C5: when a save thread whose write raised finishes, the module's status
\* is "Checkpoint Error" and an ERROR entry of the module is in the log.
C5_FailedSaveLeavesError ==
    [][\A t \in Tasks :
         (pc[t] = "job_err" /\ S_Job(t)) =>
            /\ state'[t[2]].status = "Checkpoint Error"
            /\ HasEntry("ERROR", t[2])]_vars

\* C6: a worker takes all the sampling ticks the model allows, whether or
\* not the save threads of its module or of another module ever leave
\* their file write: it never waits for a save it started.
C6_SamplingNeverWaits ==
    \A m \in AsyncModules : <>(state[m].seq = MaxSeq)

\* two save threads of one module are inside their file write, started by
\* two iterations of its worker, and the other worker has taken its ticks
C6_Witness ==
    /\ \A i \in 1..2 : pc[S("Heart Rate", i)] \in {"write", "dump"}
    /\ state["Heart Rate"].seq = MaxSeq
    /\ state["Oxygen"].seq = MaxSeq

\* C7: in every state, for every module, the history holds at most 300
\* values and exactly min(seq, 300) of them.
C7_HistoryLength ==
    \A m \in Modules :
        /\ Len(state[m].history) <= HistoryMax
        /\ Len(state[m].history) = Min(state[m].seq, HistoryMax)

\* more than 300 samples were taken since the last reset, after a request
C7_Witness ==
    /\ state["Heart Rate"].seq > HistoryMax
    /\ Len(state["Heart Rate"].history) = HistoryMax
    /\ nreq > 0

\* C8: where no save or reset changes the checkpoint file, a recovery that
\* has applied its result and not yet returned leaves, if the file holds a
\* record, the value and last_cp of the record, status "Recovered" and
\* failed false; if there is no file, it leaves status "No Checkpoint" and
\* failed false, and its update does not change the value.
C8_RecoverRestores ==
    /\ [](\A t \in Threads :
            pc[t] = "log_rec" =>
               /\ ~state[arg[t]].failed
               /\ Stored(arg[t]) # None =>
                     /\ state[arg[t]].value = Some(Stored(arg[t])[1].value)
                     /\ state[arg[t]].last_cp = Some(Stored(arg[t])[1].time)
                     /\ state[arg[t]].status = "Recovered"
               /\ fs[FinalPath(arg[t])] = Absent =>
                     state[arg[t]].status = "No Checkpoint")
    /\ [][\A t \in Threads :
            (RecoverApply(t) /\ fs[FinalPath(arg[t])] = Absent) =>
               state'[arg[t]].value = state[arg[t]].value]_vars

\* a recovery restored the value of the stored record over a sampled one
C8_Witness ==
    \E t \in Threads :
        /\ pc[t] = "log_rec"
        /\ Stored(arg[t]) # None
        /\ state[arg[t]].seq > 0
        /\ state[arg[t]].value # Some(60)

\* C9: the file at a module's checkpoint path is at all times missing or a
\* completely written record of that module; a load never fails on what it
\* reads; and a save thread outside its write has no temporary file.
C9_AtomicCheckpoint ==
    /\ \A m \in Modules :
          \/ fs[FinalPath(m)] = Absent
          \/ /\ fs[FinalPath(m)][1] = "full"
             /\ fs[FinalPath(m)][2].module = m
    /\ \A t \in Threads : pc[t] # "log_load"
    /\ \A t \in Tasks :
          pc[t] \notin {"write", "dump", "replace"} => fs[TmpPath(t)] = Absent

\* a save has failed part way through its write, the record of the earlier
\* run is still at the checkpoint path, and a recovery has loaded it
C9_Witness ==
    /\ \E t \in Tasks : pc[t] = "log_savefail" /\ t[2] = "Heart Rate"
    /\ fs[FinalPath("Heart Rate")] = Full(OldRecord("Heart Rate"))
    /\ pc[W("Heart Rate")] = "rec"
    /\ data[W("Heart Rate")] = Some(OldRecord("Heart Rate"))

\* C10: entries of the event log are never removed or altered by a step
\* other than reset_all's removal of the log file.
C10_LogAppendOnly ==
    [][Reset_RemoveLog \/ IsPrefix(log.lines, log'.lines)]_vars

\* the log holds the entry of a failed load of m's checkpoint
HasLoadError(m) ==
    \E i \in 1..Len(log.lines) :
        log.lines[i] = [level |-> "ERROR",
                        msg |-> <<m, "checkpoint load failed">>]

\* C11: a recovery that met a checkpoint file it could not load has, when
\* it has applied its result, status "No Checkpoint", failed false and an
\* ERROR entry of the failed load in the log, as with a missing file; its
\* update leaves the value unchanged; and the worker that ran it is back at
\* the top of its loop with failed false.
C11_UnreadableAsMissing ==
    /\ [](\A t \in Threads :
            (pc[t] = "log_rec" /\ fs[FinalPath(arg[t])] = Corrupt) =>
               /\ data[t] = None
               /\ state[arg[t]].status = "No Checkpoint"
               /\ ~state[arg[t]].failed
               /\ HasLoadError(arg[t]))
    /\ [][\A t \in Threads :
            (RecoverApply(t) /\ fs[FinalPath(arg[t])] = Corrupt) =>
               state'[arg[t]].value = state[arg[t]].value]_vars
    /\ [][\A m \in Modules :
            (pc[W(m)] = "log_rec" /\ AddLogWrite(W(m))
               /\ fs[FinalPath(m)] = Corrupt) =>
               /\ pc'[W(m)] = "read"
               /\ ~state'[m].failed]_vars

\* the worker, having sampled, recovered from a failure on an unreadable
\* checkpoint file and is back at the top of its loop
C11_Witness ==
    /\ fs[FinalPath("Heart Rate")] = Corrupt
    /\ pc[W("Heart Rate")] = "read"
    /\ state["Heart Rate"].status = "No Checkpoint"
    /\ state["Heart Rate"].value = Some(60)
    /\ ~state["Heart Rate"].failed
    /\ HasLoadError("Heart Rate")

\* C12: for Heart Rate (interval 5) from process start with no failure:
\* the first sampling tick leaves seq = 1 and a value in 60..100; a tick
\* schedules a save exactly when the time since last_checkpoint_time_epoch
\* is at least the interval; the 5th tick, with no checkpoint saved yet,
\* schedules one; and when a save has completed, last_cp is set and a
\* SUCCESS entry is in the log.
C12_StartupSchedule ==
    /\ [][\A v \in GenRange["Heart Rate"] :
            (W_Sample("Heart Rate", v) /\ state["Heart Rate"].seq = 0) =>
               /\ state'["Heart Rate"].seq = 1
               /\ state'["Heart Rate"].value \in
                     {Some(x) : x \in 60..100}]_vars
    /\ [][W_ReadCp("Heart Rate") =>
            (pc'[W("Heart Rate")] = "ckpt" <=>
               now - state["Heart Rate"].last_checkpoint_time_epoch
                  >= Interval["Heart Rate"])]_vars
    /\ [][(W_ReadCp("Heart Rate")
             /\ state["Heart Rate"].seq = Interval["Heart Rate"]
             /\ state["Heart Rate"].last_cp = None) =>
            pc'[W("Heart Rate")] = "ckpt"]_vars
    /\ [][W_Checkpoint("Heart Rate") =>
            \E i \in 1..MaxInFlight :
               /\ pc[S("Heart Rate", i)] = "idle"
               /\ pc'[S("Heart Rate", i)] = "payload"]_vars
    /\ [](\A t \in Tasks :
            pc[t] = "job" =>
               /\ state[t[2]].last_cp # None
               /\ HasEntry("SUCCESS", t[2]))

\* the 5th tick has scheduled a save, no checkpoint having been saved yet
C12_Witness ==
    /\ state["Heart Rate"].seq = Interval["Heart Rate"]
    /\ state["Heart Rate"].last_cp = None
    /\ state["Heart Rate"].status = "Checkpointing..."
    /\ pc[W("Heart Rate")] = "maybefail"
    /\ \E t \in Tasks : pc[t] = "payload"

\* the steps of a recovery request
RecoverCall ==
    \/ \E m \in Modules : Recover_Set(m)
    \/ Recovery(R("recover"))
    \/ AddLog(R("recover"))

\* the number of entries of the log at the given level
CountEntries(level) ==
    Cardinality({i \in 1..Len(log.lines) : log.lines[i].level = level})

\* C13: with no checkpoint file, when a recovery request has been served,
\* the first or the second in succession, the status is "No Checkpoint"
\* and failed is false; the request meets no load error; and its steps
\* change no field of any module other than status and failed, so that the
\* state the second request leaves is the state the first left.
C13_RecoverIdempotent ==
    /\ [](nreq >= 1 /\ pc[R("recover")] = "idle" =>
            /\ state["Heart Rate"].status = "No Checkpoint"
            /\ ~state["Heart Rate"].failed)
    /\ [](pc[R("recover")] \notin {"open", "log_load"})
    /\ [][RecoverCall =>
            \A m \in Modules :
               [state'[m] EXCEPT !.status = "-", !.failed = FALSE]
                 = [state[m] EXCEPT !.status = "-", !.failed = FALSE]]_vars
    /\ [][(RecoverCall /\ pc[R("recover")] = "idle" /\ nreq >= 1) =>
            /\ state'["Heart Rate"].status = "Recovering..."
            /\ ~state'["Heart Rate"].failed]_vars

\* two recovery requests have been served after a sample was taken
C13_Witness ==
    /\ nreq = 2
    /\ pc[R("recover")] = "idle"
    /\ CountEntries("WARN") = 2
    /\ state["Heart Rate"].status = "No Checkpoint"
    /\ state["Heart Rate"].value = Some(60)

\* C14: no thread is inside add_log, waiting for log_lock or appending to
\* the log file, while it holds state_lock.
C14_LogOutsideStateLock ==
    \A t \in Threads : pc[t] \in LogSites => state_lock # t

\* C15: apart from reset_all, a status "Failed" changes only to
\* "Recovering...", and a status "Recovering..." changes only to
\* "Recovered" or "No Checkpoint"; in particular no checkpoint step of the
\* worker and no step of a save thread changes either of them.
C15_FailureStatusMachine ==
    [][Reset_State \/ \A m \in Modules :
         /\ (state[m].status = "Failed" /\ state'[m].status # "Failed") =>
               state'[m].status = "Recovering..."
         /\ (state[m].status = "Recovering..."
               /\ state'[m].status # "Recovering...") =>
               state'[m].status \in {"Recovered", "No Checkpoint"}]_vars

\* C16: apart from reset_all, no step decreases the seq of a module; a
\* sampling step increases it by exactly 1; and no other step changes it.
C16_SeqMonotonic ==
    [][\A m \in Modules :
         /\ Reset_State \/ state'[m].seq >= state[m].seq
         /\ pc[W(m)] = "sample" =>
               \A v \in GenRange[m] :
                  W_Sample(m, v) => state'[m].seq = state[m].seq + 1
         /\ state'[m].seq # state[m].seq =>
               \/ Reset_State
               \/ \E v \in GenRange[m] : W_Sample(m, v)]_vars

\* samples were taken, the module failed and was recovered, and a sample
\* was taken after that
C16_Witness ==
    /\ state["Heart Rate"].seq = 3
    /\ state["Heart Rate"].status \in {"Recovered", "No Checkpoint"}
    /\ HasEntry("ERROR", "Heart Rate")
    /\ pc[W("Heart Rate")] = "cpread"

\* the fields of a module's state that a recovery may not change
RecoverFrame(r) ==
    <<r.last_checkpoint_time_epoch, r.seq, r.history, r.last_value_time>>

\* C17: the steps of recover_module, with or without a checkpoint, leave
\* last_checkpoint_time_epoch, seq, history and last_value_time of the
\* module unchanged, and leave every other module's state unchanged.
C17_RecoverFrame ==
    [][\A t \in Threads :
         (Recovery(t) \/ (pc[t] \in {"log_load", "log_rec"} /\ AddLog(t))) =>
            /\ RecoverFrame(state'[arg[t]]) = RecoverFrame(state[arg[t]])
            /\ \A m \in Modules \ {arg[t]} : state'[m] = state[m]]_vars

\* a recovery has restored value and last_cp from a record whose epoch is
\* not the module's last_checkpoint_time_epoch, after a sample was taken
C17_Witness ==
    \E t \in Threads :
        /\ pc[t] = "log_rec"
        /\ data[t] # None
        /\ state[arg[t]].seq > 0
        /\ state[arg[t]].last_cp = Some(data[t][1].time)
        /\ state[arg[t]].last_checkpoint_time_epoch # data[t][1].epoch

HolderStep(t) ==
    \/ AddLog(t)
    \/ t = R("dashboard") /\ Dash_Read

\* C19: the locks nest only as state_lock then log_lock: the thread that
\* holds log_lock never waits for a lock, and only that thread's own
\* acquisition can follow a held state_lock; so whenever a lock is held,
\* some thread holding a lock can take its next step, and no state has every
\* thread blocked on a lock.
C19_NoDeadlock ==
    /\ \A t \in Threads : log_lock = t => ENABLED HolderStep(t)
    /\ \A t \in Threads :
          state_lock = t =>
             \/ ENABLED HolderStep(t)
             \/ log_lock \notin {Free, t} /\ ENABLED HolderStep(log_lock)

\* the worker, inside recover_module's state_lock block, waits for log_lock
\* while a request holds it
C19_Witness ==
    /\ state_lock = W("Heart Rate")
    /\ pc[W("Heart Rate")] = "log_rec"
    /\ log_lock \in Reqs
    /\ ~ENABLED AddLog(W("Heart Rate"))

\* C20: whenever a module's status is "Checkpointing...", it later is
\* something else, under fair scheduling of the worker and the save threads.
C20_CheckpointingEnds ==
    \A m \in Modules :
        (state[m].status = "Checkpointing...") ~>
            (state[m].status # "Checkpointing...")

\* the worker has set "Checkpointing..." on a module that a failure request
\* had marked failed after the worker read the flag, and the save thread runs
C20_Witness ==
    /\ state["Heart Rate"].status = "Checkpointing..."
    /\ state["Heart Rate"].failed
    /\ InFlight("Heart Rate") # {}
    /\ pc[R("fail")] = "idle"

====
